---- MODULE Spec2Model ----
(***************************************************************************)
(* Model of src/random/algorithms.rs: the Mersenne Twister (MT19937) and   *)
(* Complementary-Multiply-With-Carry (CMWC4096) generators and the         *)
(* Allen-Downey float / double sampler of the Algorithm trait (the         *)
(* default build: feature "libtcod-compat" off).                           *)
(*                                                                         *)
(* A u32 is held as the pair <<hi, lo>> of its 16-bit halves, so that all  *)
(* 32-bit arithmetic is computed exactly with the width the code has.      *)
(* The sequential loops of the code are run in index order; the recursion  *)
(* that runs them splits the index range in halves, and looks at the table *)
(* before it does (DOMAIN t = {} is never true), only to keep the depth of *)
(* the evaluation logarithmic.                                             *)
(***************************************************************************)
EXTENDS Integers, Sequences, FiniteSets, TLC

VARIABLES
    seed,       \* the u32 handed to new(seed)
    draws,      \* number of get_int() calls made on the instance so far
    ret,        \* value returned by the latest get_int()
    mt,         \* MersenneTwister.mt
    cur_mt,     \* MersenneTwister.cur_mt
    q,          \* ComplementaryMultiplyWithCarry.q
    c,          \* ComplementaryMultiplyWithCarry.c
    cur,        \* ComplementaryMultiplyWithCarry.cur
    out,        \* CMWC: the words returned so far, in order
    flags,      \* CMWC: what the latest get_number() did (branches, overflow)
    pc,         \* sampler: position inside get_float() / get_double()
    kind,       \* sampler: "f32" (get_float) or "f64" (get_double)
    exp,        \* sampler: local exp
    mantissa,   \* sampler: local mantissa (limbs, most significant first)
    ans,        \* sampler: bit pattern handed to from_bits (limbs)
    bits,       \* Bits.bits
    bits_left,  \* Bits.bits_left
    trace       \* sampler: what the Bits extractor did during this call

vars == <<seed, draws, ret, mt, cur_mt, q, c, cur, out, flags,
          pc, kind, exp, mantissa, ans, bits, bits_left, trace>>

mtVars == <<mt, cur_mt>>
cmwcVars == <<q, c, cur, out, flags>>
samplerVars == <<pc, kind, exp, mantissa, ans, bits, bits_left, trace>>

-----------------------------------------------------------------------------
(* 32-bit unsigned arithmetic on <<hi, lo>> pairs.                          *)

B16 == 2 ^ 16
B8 == 2 ^ 8

Zero32 == <<0, 0>>
Max32 == <<B16 - 1, B16 - 1>>                    \* 0xFFFF_FFFF

U32(n) == <<n \div B16, n % B16>>                \* n in 0 .. 2^31 - 1

RECURSIVE BitAnd(_, _)
BitAnd(a, b) ==
    IF a = 0 \/ b = 0 THEN 0
    ELSE (a % 2) * (b % 2) + 2 * BitAnd(a \div 2, b \div 2)

RECURSIVE BitXor(_, _)
BitXor(a, b) ==
    IF a = 0 THEN b
    ELSE IF b = 0 THEN a
    ELSE ((a + b) % 2) + 2 * BitXor(a \div 2, b \div 2)

RECURSIVE BitOr(_, _)
BitOr(a, b) ==
    IF a = 0 THEN b
    ELSE IF b = 0 THEN a
    ELSE (IF a % 2 = 1 \/ b % 2 = 1 THEN 1 ELSE 0) + 2 * BitOr(a \div 2, b \div 2)

And32(x, y) == <<BitAnd(x[1], y[1]), BitAnd(x[2], y[2])>>
Xor32(x, y) == <<BitXor(x[1], y[1]), BitXor(x[2], y[2])>>
Or32(x, y) == <<BitOr(x[1], y[1]), BitOr(x[2], y[2])>>
Not32(x) == <<B16 - 1 - x[1], B16 - 1 - x[2]>>

\* x >> n and x << n on u32, 0 <= n <= 31 (bits shifted out are dropped)
Shr32(x, n) ==
    IF n >= 16 THEN <<0, x[1] \div (2 ^ (n - 16))>>
    ELSE <<x[1] \div (2 ^ n), (x[2] \div (2 ^ n)) + (x[1] % (2 ^ n)) * (2 ^ (16 - n))>>

Shl32(x, n) ==
    IF n >= 16 THEN <<(x[2] % (2 ^ (32 - n))) * (2 ^ (n - 16)), 0>>
    ELSE <<(x[1] % (2 ^ (16 - n))) * (2 ^ n) + x[2] \div (2 ^ (16 - n)),
           (x[2] % (2 ^ (16 - n))) * (2 ^ n)>>

Less32(x, y) == x[1] < y[1] \/ (x[1] = y[1] /\ x[2] < y[2])

\* u32::wrapping_add
WrappingAdd(x, y) ==
    LET lo == x[2] + y[2]
    IN  <<(x[1] + y[1] + lo \div B16) % B16, lo % B16>>

\* u32::wrapping_sub
WrappingSub(x, y) ==
    LET lo == x[2] - y[2]
    IN  <<(x[1] - y[1] - (IF lo < 0 THEN 1 ELSE 0)) % B16, lo % B16>>

\* x % m on u32 (m > 0)
RECURSIVE Rem32(_, _)
Rem32(x, m) == IF Less32(x, m) THEN x ELSE Rem32(WrappingSub(x, m), m)

\* the full 32-bit product of two 16-bit numbers, as <<hi, lo>>
Mul16(a, b) ==
    LET pl == a * (b % B8)
        ph == a * (b \div B8)
        lo == (pl % B16) + (ph % B8) * B8
    IN  <<pl \div B16 + ph \div B8 + lo \div B16, lo % B16>>

\* u32::wrapping_mul
WrappingMul(x, y) ==
    LET p == Mul16(x[2], y[2])
        m == Mul16(x[2], y[1])[2] + Mul16(x[1], y[2])[2]
    IN  <<(p[1] + m) % B16, p[2]>>

-----------------------------------------------------------------------------
(* Mersenne Twister.                                                        *)

MT19937 == 1812433253
MT19937_WORD_SIZE == 32
MT19937_RECURRENCE_DEGREE == 624
MT19937_SEPARATION_POINT == 31
MT19937_MIDDLE_WORD == 397
MT19937_RATIONAL_NORMAL_FORM_TWIST_MATRIX_COEFFICIENTS == <<39176, 45279>>  \* 0x9908_B0DF
MT19937_TGFSR_R_TEMPERING_BIT_MASKS == << <<40236, 22144>>, <<61382, 0>> >> \* 0x9D2C_5680, 0xEFC6_0000
MT19937_TGFSR_R_TEMPERING_BIT_SHIFTS == <<7, 15>>
MT19937_ADDITIONAL_TEMPERING == <<11, Max32, 18>>
MT19937_LOWER_MASK == Shl32(U32(1), MT19937_SEPARATION_POINT)               \* 0x8000_0000
MT19937_UPPER_MASK == Not32(MT19937_LOWER_MASK)                             \* 0x7FFF_FFFF

MtIndex == 0 .. (MT19937_RECURRENCE_DEGREE - 1)

\* a slot of a MaybeUninit array that has not been written yet
Uninit == <<-1, -1>>

\* body of the seeding loop, iteration i
mt_init_step(t, i) ==
    [t EXCEPT ![i] =
        WrappingMul(U32(MT19937),
                    WrappingAdd(Xor32(t[i - 1], Shr32(t[i - 1], MT19937_WORD_SIZE - 2)),
                                U32(i)))]

\* iterations lo .. hi - 1 of the seeding loop, in order
RECURSIVE mt_init_loop(_, _, _)
mt_init_loop(t, lo, hi) ==
    IF lo >= hi \/ DOMAIN t = {} THEN t
    ELSE IF hi - lo = 1 THEN mt_init_step(t, lo)
    ELSE LET mid == (lo + hi) \div 2
         IN  mt_init_loop(mt_init_loop(t, lo, mid), mid, hi)

mt_init(s) ==
    mt_init_loop([[i \in MtIndex |-> Uninit] EXCEPT ![0] = s],
                 1, MT19937_RECURRENCE_DEGREE)

\* the regenerated word for slot i, given y and the word MIDDLE_WORD further on
TwistWord(y, far) ==
    IF y[2] % 2 = 0
    THEN Xor32(far, Shr32(y, 1))
    ELSE Xor32(Xor32(far, Shr32(y, 1)),
               MT19937_RATIONAL_NORMAL_FORM_TWIST_MATRIX_COEFFICIENTS)

\* body of the regeneration loop, iteration i (0 <= i < 623)
twist_step(t, i) ==
    LET y == Or32(And32(t[i], MT19937_LOWER_MASK), And32(t[i + 1], MT19937_UPPER_MASK))
    IN  [t EXCEPT ![i] =
            TwistWord(y, t[(i + MT19937_MIDDLE_WORD) % MT19937_RECURRENCE_DEGREE])]

\* iterations lo .. hi - 1 of the regeneration loop, in order
RECURSIVE twist_loop(_, _, _)
twist_loop(t, lo, hi) ==
    IF lo >= hi \/ DOMAIN t = {} THEN t
    ELSE IF hi - lo = 1 THEN twist_step(t, lo)
    ELSE LET mid == (lo + hi) \div 2
         IN  twist_loop(twist_loop(t, lo, mid), mid, hi)

\* the statement after the loop: the last slot, from mt[0] and mt[396]
twist_last(t) ==
    LET last == MT19937_RECURRENCE_DEGREE - 1
        y == Or32(And32(t[last], MT19937_LOWER_MASK), And32(t[0], MT19937_UPPER_MASK))
    IN  [t EXCEPT ![last] = TwistWord(y, t[MT19937_MIDDLE_WORD - 1])]

\* a regeneration that reads every word from the table as it was before it
twist_from_snapshot(t) ==
    [i \in MtIndex |->
        TwistWord(Or32(And32(t[i], MT19937_LOWER_MASK),
                       And32(t[(i + 1) % MT19937_RECURRENCE_DEGREE], MT19937_UPPER_MASK)),
                  t[(i + MT19937_MIDDLE_WORD) % MT19937_RECURRENCE_DEGREE])]

twist(t) == twist_last(twist_loop(t, 0, MT19937_RECURRENCE_DEGREE - 1))

temper(w) ==
    LET y1 == Xor32(w, Shr32(w, MT19937_ADDITIONAL_TEMPERING[1]))
        y2 == Xor32(y1, And32(Shl32(y1, MT19937_TGFSR_R_TEMPERING_BIT_SHIFTS[1]),
                              MT19937_TGFSR_R_TEMPERING_BIT_MASKS[1]))
        y3 == Xor32(y2, And32(Shl32(y2, MT19937_TGFSR_R_TEMPERING_BIT_SHIFTS[2]),
                              MT19937_TGFSR_R_TEMPERING_BIT_MASKS[2]))
    IN  Xor32(y3, Shr32(y3, MT19937_ADDITIONAL_TEMPERING[3]))

\* mt_rand with the cursor left at 1 after a regeneration
mt_rand_reset_to_one(t, k) ==
    LET t1 == IF k = MT19937_RECURRENCE_DEGREE THEN twist(t) ELSE t
        k1 == IF k = MT19937_RECURRENCE_DEGREE THEN 1 ELSE k
    IN  [mt |-> t1, cur_mt |-> k1 + 1, y |-> temper(t1[k1])]

\* mt_rand(mt, cur_mt): the new table, the new cursor and the returned word
mt_rand(t, k) ==
    LET t1 == IF k = MT19937_RECURRENCE_DEGREE THEN twist(t) ELSE t
        k1 == IF k = MT19937_RECURRENCE_DEGREE THEN 0 ELSE k
    IN  [mt |-> t1, cur_mt |-> k1 + 1, y |-> temper(t1[k1])]

\* seeds the instances of the model are constructed with
MtSeeds == {0, 1, 5489}

\* number of get_int() calls followed on one Mersenne Twister instance
MaxMtDraws == 1250

NoSampler ==
    /\ pc = "idle" /\ kind = "f32" /\ exp = 0 /\ mantissa = <<>> /\ ans = <<>>
    /\ bits = Zero32 /\ bits_left = 0 /\ trace = <<>>

NoMt == mt = <<>> /\ cur_mt = 0
NoCmwc == q = <<>> /\ c = Zero32 /\ cur = 0 /\ out = <<>> /\ flags = {}

\* MersenneTwister::new(seed)
MtNew ==
    \E s \in MtSeeds :
        /\ seed = U32(s)
        /\ mt = mt_init(U32(s))
        /\ cur_mt = 624
        /\ draws = 0
        /\ ret = Zero32

MtInit == MtNew /\ NoCmwc /\ NoSampler

\* <MersenneTwister as Algorithm>::get_int
MtGetInt ==
    /\ draws < MaxMtDraws
    /\ LET r == mt_rand(mt, cur_mt)
       IN  /\ mt' = r.mt
           /\ cur_mt' = r.cur_mt
           /\ ret' = r.y
    /\ draws' = draws + 1
    /\ UNCHANGED <<seed, cmwcVars, samplerVars>>

MtNext == MtGetInt

SpecMT == MtInit /\ [][MtNext]_vars

-----------------------------------------------------------------------------
(* Properties of the Mersenne Twister.                                      *)

Hex8000_0000 == <<32768, 0>>
Hex7FFF_FFFF == <<32767, 65535>>
Hex9908_B0DF == <<39176, 45279>>

\* the seeding recurrence of the MT19937 reference implementation
ReferenceSeedWord(prev, i) ==
    WrappingAdd(WrappingMul(U32(1812433253), Xor32(prev, Shr32(prev, 30))), U32(i))

\* C2: the first get_int() of an instance constructed with seed 1 is
\* 1791095845, the first output of the MT19937 reference implementation.
C2_FirstOutputOfSeedOne ==
    (seed = U32(1) /\ draws = 1) => ret = U32(1791095845)

\* C3: after seeding, table[0] is the seed, every later table[i] is
\* 1812433253 * (table[i-1] xor (table[i-1] >> 30)) + i modulo 2^32 (the index
\* added after the multiplication), and the cursor is 624.
C3_SeedingRecurrence ==
    draws = 0 =>
        /\ mt[0] = seed
        /\ \A i \in 1 .. 623 : mt[i] = ReferenceSeedWord(mt[i - 1], i)
        /\ cur_mt = 624

\* C4: the cursor stays in 0 .. 624 (1 .. 624 once a draw was made), and the
\* n-th draw regenerates the table exactly when n = 624 * k + 1; every other
\* draw leaves the table alone and returns the tempered table[cur].
C4_CursorRange ==
    /\ cur_mt \in 0 .. 624
    /\ draws >= 1 => cur_mt \in 1 .. 624

C4_DrawStep ==
    draws' = draws + 1 =>
        IF draws' % 624 = 1
        THEN /\ cur_mt = 624
             /\ mt' = twist(mt)
             /\ mt' # mt
             /\ cur_mt' = 1
             /\ ret' = temper(mt'[0])
        ELSE /\ cur_mt < 624
             /\ mt' = mt
             /\ cur_mt' = cur_mt + 1
             /\ ret' = temper(mt[cur_mt])

C4_TwistSchedule == [](C4_CursorRange) /\ [][C4_DrawStep]_vars

\* the 625th draw has been made: the second regeneration has happened
C4_Witness == draws = 625 /\ cur_mt = 1

\* C8: a regeneration rewrites the table in place in index order: slot i
\* becomes table[(i+397) mod 624] xor (y >> 1), xor 0x9908B0DF when y is odd,
\* with y = (table[i] & 0x80000000) | (table[(i+1) mod 624] & 0x7FFFFFFF), each
\* word read as the table stands when slot i is reached (already regenerated
\* words for (i+397) mod 624 when i >= 227, and for table[0] when i = 623);
\* the cursor is then 0, so the draw returns the tempered table[0].
C8_TwistStep ==
    (draws' = draws + 1 /\ cur_mt = 624) =>
        /\ \A i \in 0 .. 623 :
              LET next == IF i + 1 < 624 THEN mt[i + 1] ELSE mt'[0]
                  far == IF i < 227 THEN mt[i + 397] ELSE mt'[(i + 397) % 624]
                  y == Or32(And32(mt[i], Hex8000_0000), And32(next, Hex7FFF_FFFF))
                  base == Xor32(far, Shr32(y, 1))
              IN  mt'[i] = IF y[2] % 2 = 1 THEN Xor32(base, Hex9908_B0DF) ELSE base
        /\ cur_mt' = 1
        /\ ret' = temper(mt'[0])

C8_TwistInPlace == [][C8_TwistStep]_vars

\* a regenerated table: the first draw has been made
C8_Witness == draws = 1 /\ cur_mt = 1 /\ mt # mt_init(seed)

-----------------------------------------------------------------------------
(* Complementary-Multiply-With-Carry.                                       *)

CMWC_SIZE == 4096
LCG_MULTIPLIER == 1103515245
LCG_INCREMENT == 12345
CARRY_MODULUS == 809430660
CMWC_MULTIPLIER == 18782
HexFFFF_FFFE == <<65535, 65534>>

CmwcIndex == 0 .. (CMWC_SIZE - 1)

\* one step of the glibc LCG
lcg(s) == WrappingAdd(WrappingMul(s, U32(LCG_MULTIPLIER)), U32(LCG_INCREMENT))

\* body of the fill loop of new(): slot i
cmwc_fill_step(st, i) ==
    LET s1 == lcg(st.s)
    IN  [s |-> s1, q |-> [st.q EXCEPT ![i] = s1]]

\* slots lo .. hi - 1 of the fill loop, in order
RECURSIVE cmwc_fill_loop(_, _, _)
cmwc_fill_loop(st, lo, hi) ==
    IF lo >= hi \/ DOMAIN st.q = {} THEN st
    ELSE IF hi - lo = 1 THEN cmwc_fill_step(st, lo)
    ELSE LET mid == (lo + hi) \div 2
         IN  cmwc_fill_loop(cmwc_fill_loop(st, lo, mid), mid, hi)

\* ComplementaryMultiplyWithCarry::new(seed): the fields q, c, cur
cmwc_new(s0) ==
    LET st == cmwc_fill_loop([s |-> s0, q |-> [i \in CmwcIndex |-> Uninit]], 0, CMWC_SIZE)
    IN  [q |-> st.q, c |-> Rem32(lcg(st.s), U32(CARRY_MODULUS)), cur |-> 0]

\* 18782_u64 * u64::from(w) + u64::from(carry), as the u32 pair <<high, low>>
mul_add_64(w, carry) ==
    LET p0 == CMWC_MULTIPLIER * w[2] + carry[2]
        p1 == CMWC_MULTIPLIER * w[1] + carry[1] + p0 \div B16
    IN  <<U32(p1 \div B16), <<p1 % B16, p0 % B16>> >>

\* the complementary step with 0xFFFF_FFFF in place of 0xFFFF_FFFE
complement_of_max(x) == WrappingSub(Max32, x)

\* the complementary step: the word stored and returned, from x
complement(x) == WrappingSub(HexFFFF_FFFE, x)

\* the second correction without its `x = 0`
max_fix_without_reset(x, carry) ==
    IF WrappingAdd(x, U32(1)) = Zero32
    THEN [x |-> x, c |-> WrappingAdd(carry, U32(1)), taken |-> TRUE,
          overflow |-> carry = Max32]
    ELSE [x |-> x, c |-> carry, taken |-> FALSE, overflow |-> FALSE]

\* `if x < self.c { x += 1; self.c += 1; }`: the += are unchecked, "overflow"
\* tells that one of them left the range of u32 (the value is the wrapped one)
carry_fix(x, carry) ==
    IF Less32(x, carry)
    THEN [x |-> WrappingAdd(x, U32(1)), c |-> WrappingAdd(carry, U32(1)), taken |-> TRUE,
          overflow |-> x = Max32 \/ carry = Max32]
    ELSE [x |-> x, c |-> carry, taken |-> FALSE, overflow |-> FALSE]

\* `if x.wrapping_add(1) == 0 { self.c += 1; x = 0; }`
max_fix(x, carry) ==
    IF WrappingAdd(x, U32(1)) = Zero32
    THEN [x |-> Zero32, c |-> WrappingAdd(carry, U32(1)), taken |-> TRUE,
          overflow |-> carry = Max32]
    ELSE [x |-> x, c |-> carry, taken |-> FALSE, overflow |-> FALSE]

\* the cursor wrapping at 2048
next_cur_2047(k) == BitAnd(k + 1, 2047)

\* `self.cur = (self.cur + 1) & 4095`
next_cur(k) == BitAnd(k + 1, 4095)

\* the arithmetic of get_number on the word w read from the table and the
\* carry: the word to store and return, the new carry, and what happened on
\* the way: "carry" (x < c was taken), "max" (x + 1 == 0 was taken),
\* "overflow" (an unchecked +=, or the unchecked 0xffff_fffe - x, left the
\* range of u32)
cmwc_word(w, carry) ==
    LET t == mul_add_64(w, carry)
        c1 == t[1]
        x1 == WrappingAdd(t[2], c1)
        f1 == carry_fix(x1, c1)
        f2 == max_fix(f1.x, f1.c)
        ovf == f1.overflow \/ f2.overflow \/ Less32(HexFFFF_FFFE, f2.x)
    IN  [y |-> complement(f2.x), c |-> f2.c,
         flags |-> {f \in {"carry", "max", "overflow"} :
                        \/ f = "carry" /\ f1.taken
                        \/ f = "max" /\ f2.taken
                        \/ f = "overflow" /\ ovf}]

\* get_number: the new fields and the returned word
get_number(qt, carry, k) ==
    LET k1 == next_cur(k)
        r == cmwc_word(qt[k1], carry)
    IN  [q |-> [qt EXCEPT ![k1] = r.y], c |-> r.c, cur |-> k1, y |-> r.y,
         flags |-> r.flags]

\* the fields after a call that gave r, with the log of returned words
logged(st, r) ==
    [q |-> r.q, c |-> r.c, cur |-> r.cur, ret |-> r.y,
     out |-> Append(st.out, r.y), flags |-> r.flags]

\* one get_int() call on the fields st
cmwc_call(st) == logged(st, get_number(st.q, st.c, st.cur))

\* n get_int() calls in a row
RECURSIVE cmwc_calls(_, _)
cmwc_calls(st, n) ==
    IF n <= 0 \/ DOMAIN st.q = {} THEN st
    ELSE IF n = 1 THEN cmwc_call(st)
    ELSE cmwc_calls(cmwc_calls(st, n \div 2), n - n \div 2)

\* seeds the instances of the model are constructed with: 41339 takes the
\* x < c branch and 1847603409 the x + 1 == 0 branch on their first draw
CmwcSeeds == {1, 41339, 1847603409}

\* number of get_int() calls followed on one CMWC instance
MaxCmwcDraws == 8200

\* length of the runs of calls of CmwcGetIntBlock
CmwcBlock == 1024

\* ComplementaryMultiplyWithCarry::new(seed)
CmwcNew ==
    \E s \in CmwcSeeds :
        LET n == cmwc_new(U32(s))
        IN  /\ seed = U32(s)
            /\ q = n.q
            /\ c = n.c
            /\ cur = n.cur
            /\ draws = 0
            /\ ret = Zero32
            /\ out = <<>>
            /\ flags = {}

CmwcInit == CmwcNew /\ NoMt /\ NoSampler

CmwcFields == [q |-> q, c |-> c, cur |-> cur, ret |-> ret, out |-> out, flags |-> flags]

CmwcCalls(n) ==
    /\ draws + n <= MaxCmwcDraws
    /\ LET r == cmwc_calls(CmwcFields, n)
       IN  /\ q' = r.q
           /\ c' = r.c
           /\ cur' = r.cur
           /\ ret' = r.ret
           /\ out' = r.out
           /\ flags' = r.flags
    /\ draws' = draws + n
    /\ UNCHANGED <<seed, mtVars, samplerVars>>

\* <ComplementaryMultiplyWithCarry as Algorithm>::get_int
CmwcGetInt == CmwcCalls(1)

\* a caller that makes CmwcBlock get_int() calls in a row
CmwcGetIntBlock ==
    /\ draws % CmwcBlock = 0
    /\ CmwcCalls(CmwcBlock)

CmwcNext == CmwcGetInt \/ CmwcGetIntBlock

SpecCMWC == CmwcInit /\ [][CmwcNext]_vars

-----------------------------------------------------------------------------
(* Properties of CMWC4096.                                                  *)

\* C5: the cursor cycles modulo 4096: the n-th draw reads and overwrites
\* table[n mod 4096] and no other slot, the cursor stays in 0 .. 4095, and a
\* draw n > 4096 reads the word that draw n - 4096 stored and returned.
C5_CursorRange ==
    /\ cur \in 0 .. 4095
    /\ cur = draws % 4096

C5_DrawStep ==
    draws' = draws + 1 =>
        LET n == draws'
            i == n % 4096
            r == cmwc_word(q[i], c)
        IN  /\ cur' = i
            /\ ret' = r.y
            /\ c' = r.c
            /\ q' = [q EXCEPT ![i] = ret']
            /\ n > 4096 => q[i] = out[n - 4096]

C5_CursorCycle == [](C5_CursorRange) /\ [][C5_DrawStep]_vars

\* index 0 has been revisited: draw 8192 read the word stored by draw 4096
C5_Witness == draws = 8192 /\ cur = 0 /\ q[0] = out[8192] /\ out[4096] # out[8192]

\* C7: no unchecked 32-bit operation of a draw overflows or underflows
\* (x += 1, c += 1, 0xFFFFFFFE - x), and the two carry corrections never
\* both fire in one draw.
C7_DrawIsTotal ==
    /\ "overflow" \notin flags
    /\ ~({"carry", "max"} \subseteq flags)

\* a draw that took the x < c correction
C7_Witness == draws >= 1 /\ flags = {"carry"}

\* C10: get_int() never returns 0xFFFFFFFF: the word returned, which is the
\* word just stored in the table, is at most 0xFFFFFFFE.
C10_NeverAllOnes ==
    draws >= 1 =>
        /\ ret # Max32
        /\ ~Less32(HexFFFF_FFFE, ret)
        /\ q[cur] = ret
        /\ out[draws] = ret

\* a draw that took the x + 1 == 0 correction and returned 0xFFFFFFFE, the
\* largest word a draw returns
C10_Witness == draws >= 1 /\ "max" \in flags /\ ret = HexFFFF_FFFE

-----------------------------------------------------------------------------
(* Algorithm::get_float / get_double (precise mode) and the Bits extractor. *)
(* The generator behind the trait is any Algorithm: get_int() hands out an  *)
(* arbitrary word, here one of Words.                                       *)

Hex0000_0001 == <<0, 1>>
Hex0000_0002 == <<0, 2>>
Hex007F_FFFF == <<127, 65535>>
Hex000F_FFFF == <<15, 65535>>

\* the words get_int() may return in the model: all zeros (the exponent loop
\* goes on), lowest bit set (the loop stops, mantissa not 0), lowest bit
\* clear and second set, only the top bit set (mantissa 0 in both widths), all
\* ones
Words == {Zero32, Hex0000_0001, Hex0000_0002, Hex8000_0000, Max32}

Kinds == {"f32", "f64"}

low_exp == 0
high_exp(k) == IF k = "f32" THEN 127 ELSE 1023
mantissa_bits(k) == IF k = "f32" THEN 23 ELSE 52

\* `let mut exp = high_exp` (without the - 1)
initial_exp_high(k) == high_exp(k)

\* `let mut exp = high_exp - 1`
initial_exp(k) == high_exp(k) - 1

\* `while exp >= low_exp`
loop_continues_ge(e) == e >= low_exp

\* `while exp > low_exp`
loop_continues(e) == e > low_exp

\* Bits::get_bit without `self.bits >>= 1`
get_bit_no_shift(b, left, w) ==
    LET b1 == IF left = 0 THEN w ELSE b
        left1 == IF left = 0 THEN 32 ELSE left
    IN  [bit |-> b1[2] % 2, bits |-> b1, bits_left |-> left1 - 1,
         fetched |-> left = 0]

\* Bits::get_bit on the fields bits = b, bits_left = left; w is the word
\* get_int() returns if it is called. The bit, the new fields, and whether
\* get_int() was called.
get_bit(b, left, w) ==
    LET b1 == IF left = 0 THEN w ELSE b
        left1 == IF left = 0 THEN 32 ELSE left
    IN  [bit |-> b1[2] % 2, bits |-> Shr32(b1, 1), bits_left |-> left1 - 1,
         fetched |-> left = 0]

\* the mantissa, most significant u32 first: get_int() & 0x7FFFFF, or
\* (get_int() << 32 | get_int()) & 0xFFFFFFFFFFFFF
mantissa_of(k, w1, w2) ==
    IF k = "f32" THEN <<And32(w1, Hex007F_FFFF)>>
    ELSE <<And32(w1, Hex000F_FFFF), w2>>

IsZero(m) == \A i \in DOMAIN m : m[i] = Zero32

\* (exp << 23) | mantissa on u32, (exp << 52) | mantissa on u64
assemble(k, e, m) ==
    IF k = "f32" THEN <<Or32(Shl32(U32(e), mantissa_bits(k)), m[1])>>
    ELSE <<Or32(Shl32(U32(e), mantissa_bits(k) - 32), m[1]), m[2]>>

\* what the extractor has done in the current call: bits handed out, words
\* fetched, the latest word as it was fetched, the latest bit handed out
NoTrace == [nbits |-> 0, nfetch |-> 0, word |-> Zero32, bit |-> 0]

Traced(r, w) ==
    [nbits |-> trace.nbits + 1,
     nfetch |-> trace.nfetch + (IF r.fetched THEN 1 ELSE 0),
     word |-> IF r.fetched THEN w ELSE trace.word,
     bit |-> r.bit]

SamplerInit ==
    /\ pc = "idle" /\ kind = "f32" /\ exp = 0 /\ mantissa = <<>> /\ ans = <<>>
    /\ bits = Zero32 /\ bits_left = 0 /\ trace = NoTrace
    /\ seed = Zero32 /\ draws = 0 /\ ret = Zero32
    /\ NoMt /\ NoCmwc

generatorVars == <<seed, draws, ret, mtVars, cmwcVars>>

\* entry of get_float() / get_double(): Bits::new and `let mut exp`
Call ==
    /\ pc \in {"idle", "done"}
    /\ \E k \in Kinds :
        /\ kind' = k
        /\ exp' = initial_exp(k)
    /\ bits' = Zero32
    /\ bits_left' = 0
    /\ trace' = NoTrace
    /\ mantissa' = <<>>
    /\ ans' = <<>>
    /\ pc' = "loop"
    /\ UNCHANGED generatorVars

\* one iteration of `while exp > low_exp`
LoopIteration ==
    /\ pc = "loop"
    /\ loop_continues(exp)
    /\ \E w \in Words :
        LET r == get_bit(bits, bits_left, w)
        IN  /\ bits' = r.bits
            /\ bits_left' = r.bits_left
            /\ trace' = Traced(r, w)
            /\ IF r.bit # 0
               THEN pc' = "mantissa" /\ exp' = exp
               ELSE pc' = "loop" /\ exp' = exp - 1
    /\ UNCHANGED <<kind, mantissa, ans, generatorVars>>

\* the loop condition fails
LoopExit ==
    /\ pc = "loop"
    /\ ~loop_continues(exp)
    /\ pc' = "mantissa"
    /\ UNCHANGED <<kind, exp, mantissa, ans, bits, bits_left, trace, generatorVars>>

\* `let mantissa = ...`: one or two words straight from the generator
DrawMantissa ==
    /\ pc = "mantissa"
    /\ \E w1 \in Words, w2 \in Words :
        mantissa' = mantissa_of(kind, w1, w2)
    /\ pc' = "edge"
    /\ UNCHANGED <<kind, exp, ans, bits, bits_left, trace, generatorVars>>

\* `if mantissa == 0 && bits.get_bit() != 0 { exp += 1 }`, then the result
Boundary ==
    /\ pc = "edge"
    /\ IF IsZero(mantissa)
       THEN \E w \in Words :
                LET r == get_bit(bits, bits_left, w)
                    e == IF r.bit # 0 THEN exp + 1 ELSE exp
                IN  /\ bits' = r.bits
                    /\ bits_left' = r.bits_left
                    /\ trace' = Traced(r, w)
                    /\ exp' = e
                    /\ ans' = assemble(kind, e, mantissa)
       ELSE /\ ans' = assemble(kind, exp, mantissa)
            /\ UNCHANGED <<exp, bits, bits_left, trace>>
    /\ pc' = "done"
    /\ UNCHANGED <<kind, mantissa, generatorVars>>

InCall == LoopIteration \/ LoopExit \/ DrawMantissa \/ Boundary

SamplerNext == Call \/ LoopIteration \/ LoopExit \/ DrawMantissa \/ Boundary

SpecSampler == SamplerInit /\ [][SamplerNext]_vars

\* a call that was entered runs on: the code is sequential and never waits
FairSpecSampler == SpecSampler /\ WF_vars(InCall)

-----------------------------------------------------------------------------
(* Properties of the sampler.                                               *)

\* a < b on bit patterns of the same width (u32 words, most significant first)
PatternLess(a, b) ==
    \E i \in DOMAIN a :
        /\ Less32(a[i], b[i])
        /\ \A j \in 1 .. (i - 1) : a[j] = b[j]

\* the bit pattern of 1.0: bias << mantissa_bits, 0x3F80_0000 as f32 and
\* 0x3FF0_0000_0000_0000 as f64
One(k) == IF k = "f32" THEN << <<16256, 0>> >> ELSE << <<16368, 0>>, Zero32 >>

\* C1 as stated: the assembled bit pattern is strictly below that of 1.0, so
\* the value returned is in [0, 1) and 1.0 is never returned.
C1_BelowOne == pc = "done" => PatternLess(ans, One(kind))

\* C1 as amended: the assembled bit pattern is at most that of 1.0, so the
\* value returned is in [0, 1]; 1.0 is returned exactly when the exponent loop
\* stops on its first bit, the mantissa is 0 and the boundary bit is 1.
C1_AtMostOne ==
    pc = "done" =>
        /\ PatternLess(ans, One(kind)) \/ ans = One(kind)
        /\ ans = One(kind) <=>
                /\ IsZero(mantissa)
                /\ trace.nbits = 2
                /\ trace.bit = 1
        /\ ans = One(kind) => exp = high_exp(kind)

\* a call that returns 1.0
C1_Witness == pc = "done" /\ ans = One(kind)

\* C6: a call draws at most bias bits from the extractor (at most bias - 1 in
\* the exponent loop, then at most the boundary bit), exp never goes below
\* 0, and every call that was entered returns.
C6_Bounds ==
    pc # "idle" =>
        /\ exp >= 0
        /\ exp <= high_exp(kind)
        /\ trace.nbits <= high_exp(kind)
        /\ pc \in {"loop", "mantissa", "edge"} => trace.nbits <= high_exp(kind) - 1
        /\ pc = "loop" => trace.nbits + exp = high_exp(kind) - 1

C6_Terminates == [](C6_Bounds) /\ ((pc = "loop") ~> (pc = "done"))

\* the longest call: bias - 1 zero bits in the loop, then the boundary bit
C6_Witness == pc = "done" /\ kind = "f64" /\ exp = 0 /\ trace.nbits = 1023

BitOf(w, n) == Shr32(w, n)[2] % 2

\* C9: the extractor starts empty, keeps bits_left in 0 .. 32, calls
\* get_int() only when bits_left = 0, and hands out every fetched word lowest
\* bit first: the k-th bit is bit (k-1) mod 32 of the ceil(k/32)-th word. The
\* mantissa words leave the buffer alone; the boundary bit, drawn only when
\* the mantissa is 0, is the next bit of the buffered word, or the lowest bit
\* of a fresh word when the buffer is used up.
C9_Buffer ==
    pc # "idle" =>
        /\ bits_left \in 0 .. 32
        /\ trace.nfetch = (trace.nbits + 31) \div 32
        /\ bits_left = 32 * trace.nfetch - trace.nbits
        /\ bits = Shr32(trace.word, 32 - bits_left)
        /\ trace.nbits >= 1 => trace.bit = BitOf(trace.word, (trace.nbits - 1) % 32)

C9_Step ==
    /\ (pc \in {"idle", "done"} /\ pc' = "loop") =>
            bits_left' = 0 /\ trace'.nbits = 0 /\ trace'.nfetch = 0
    /\ (pc \in {"loop", "edge"} /\ trace'.nfetch # trace.nfetch) =>
            bits_left = 0 /\ trace'.nfetch = trace.nfetch + 1
    /\ (pc = "mantissa" /\ pc' = "edge") =>
            bits' = bits /\ bits_left' = bits_left /\ trace' = trace
    /\ (pc = "edge" /\ pc' = "done") =>
            IF IsZero(mantissa)
            THEN /\ trace'.nbits = trace.nbits + 1
                 /\ bits_left > 0 =>
                        /\ trace'.bit = bits[2] % 2
                        /\ trace'.bit = BitOf(trace.word, 32 - bits_left)
                        /\ trace'.word = trace.word
                        /\ trace'.nfetch = trace.nfetch
                 /\ bits_left = 0 =>
                        /\ trace'.nfetch = trace.nfetch + 1
                        /\ trace'.bit = trace'.word[2] % 2
            ELSE bits' = bits /\ bits_left' = bits_left /\ trace' = trace

C9_BitOrder == [](C9_Buffer) /\ [][C9_Step]_vars

\* the loop used up a whole word, the mantissa was 0, and the boundary bit
\* came from a second word
C9_Witness ==
    /\ pc = "done"
    /\ IsZero(mantissa)
    /\ trace.nbits = 33
    /\ trace.nfetch = 2
    /\ bits_left = 31

====
